---- MODULE Spec2Model ----
(***************************************************************************)
(* A model of the PubChem gateway client (pubChemApiClient) and of the     *)
(* tool logic built on it: the cross-reference aggregation                 *)
(* (pubchemFetchCompoundXrefsLogic), the per-CID property fetch and the    *)
(* batch identifier search.                                                *)
(***************************************************************************)
EXTENDS Integers, Sequences, FiniteSets, TLC

(***************************************************************************)
(* Bounds of the model.                                                    *)
(***************************************************************************)
NumTypes == 3       \* how many tags of PubchemXrefTypesEnum requests draw from
MaxTypes == 3       \* longest xrefTypes list of a request
MaxPage == 2        \* largest page asked for
MaxPageSize == 2    \* largest pageSize asked for
MaxShortTypes == 2  \* longest xrefTypes list where the aggregation is
                    \* combined with a second call or with the gateway
MaxBatch == 3       \* longest list of inputs of a batch operation
NumInputs == 2      \* distinct CIDs / identifiers the batches draw from
NumCallers == 6     \* requests that may be waiting for a permit at once
TicksPerSecond == 2 \* clock ticks in the limiter's 1-second window
NumWaiters == 3     \* callers that ask for permits again and again

Min(a, b) == IF a < b THEN a ELSE b
Max(a, b) == IF a > b THEN a ELSE b

(***************************************************************************)
(* JavaScript built-ins used by the logic.                                 *)
(***************************************************************************)
\* Array.prototype.slice(start, end) for start, end >= 0 (0-based, end exclusive).
JsSlice(arr, start, end) ==
  LET n == Len(arr)
      s == Min(start, n)
      e == Min(end, n)
  IN  IF s >= e THEN << >> ELSE SubSeq(arr, s + 1, e)

\* Math.ceil(a / b) for integers a >= 0, b >= 1. The mutant rounds down.
MathFloorDiv(a, b) == a \div b

MathCeilDiv(a, b) == IF a % b = 0 THEN a \div b ELSE (a \div b) + 1

(***************************************************************************)
(* The gateway client: status mapping, get and getBlob.                    *)
(***************************************************************************)
McpErrorCodes ==
  {"INVALID_INPUT", "NOT_FOUND", "METHOD_NOT_ALLOWED", "SERVICE_UNAVAILABLE",
   "GATEWAY_TIMEOUT", "EXTERNAL_SERVICE_ERROR"}

\* The statuses the upstream is made to answer with.
HttpStatuses == {200, 202, 204, 400, 401, 404, 405, 429, 500, 503, 504}

\* Response.ok of the fetch API.
ResponseOk(status) == status >= 200 /\ status <= 299

Thrown(code, status) ==
  [ok |-> FALSE, error |-> code, httpStatusCode |-> status, status |-> status,
   value |-> [kind |-> "none", infos |-> << >>]]

Returned(status, value) ==
  [ok |-> TRUE, error |-> "none", httpStatusCode |-> 0, status |-> status,
   value |-> value]


\* What one outbound call meets on the network: the call times out, or the
\* upstream answers with a status and a body. readable: the body stream can be
\* read to its end; json: the body text is valid JSON; body: the parsed value.
NullBody == [kind |-> "null", infos |-> << >>]

NetTimeout ==
  [timedOut |-> TRUE, status |-> 0, readable |-> FALSE, json |-> FALSE,
   body |-> NullBody]

NetResponse(status, readable, json, body) ==
  [timedOut |-> FALSE, status |-> status, readable |-> readable, json |-> json,
   body |-> body]

\* fetchWithTimeout(url, PUBCHEM_API_TIMEOUT_MS, context): the Response, or
\* GatewayTimeout when the fixed per-call timeout passes first.
fetchWithTimeout(net) ==
  IF net.timedOut THEN Thrown("GATEWAY_TIMEOUT", 0)
  ELSE Returned(net.status, net.body)

\* The switch of executeRequest. The mutant maps every status to the default.
StatusToErrorCodeAllDefault(status) == "EXTERNAL_SERVICE_ERROR"

StatusToErrorCode(status) ==
  CASE status = 400 -> "INVALID_INPUT"
    [] status = 404 -> "NOT_FOUND"
    [] status = 405 -> "METHOD_NOT_ALLOWED"
    [] status = 503 -> "SERVICE_UNAVAILABLE"
    [] status = 504 -> "GATEWAY_TIMEOUT"
    [] OTHER -> "EXTERNAL_SERVICE_ERROR"

\* executeRequest after its permit: the fetch, then for a non-ok response
\* `await response.text()` (which rejects when the body cannot be read, outside
\* any try) and the throw of the mapped McpError.
executeRequest(net) ==
  LET r == fetchWithTimeout(net)
  IN  IF ~r.ok THEN r
      ELSE IF ~ResponseOk(net.status)
           THEN IF ~net.readable THEN Thrown("TypeError", net.status)
                ELSE Thrown(StatusToErrorCode(net.status), net.status)
           ELSE r

\* get: null on 204, else response.json(), which rejects when the body cannot
\* be read (TypeError) or is not JSON (SyntaxError). The mutant has no check
\* of the status and parses every body.
getAlwaysParses(net) ==
  LET r == executeRequest(net)
  IN  IF ~r.ok THEN r
      ELSE IF ~net.readable THEN Thrown("TypeError", net.status)
      ELSE IF ~net.json THEN Thrown("SyntaxError", net.status)
      ELSE Returned(net.status, net.body)

get(net) ==
  LET r == executeRequest(net)
  IN  IF ~r.ok THEN r
      ELSE IF net.status = 204 THEN Returned(204, NullBody)
      ELSE IF ~net.readable THEN Thrown("TypeError", net.status)
      ELSE IF ~net.json THEN Thrown("SyntaxError", net.status)
      ELSE Returned(net.status, net.body)

\* getBlob: response.arrayBuffer(), the raw body unparsed.
getBlob(net) ==
  LET r == executeRequest(net)
  IN  IF ~r.ok THEN r
      ELSE IF ~net.readable THEN Thrown("TypeError", net.status)
      ELSE Returned(net.status, [kind |-> "bytes", infos |-> << >>])

(***************************************************************************)
(* pubchem_fetch_compound_xrefs: the responses of the xrefs endpoint.      *)
(***************************************************************************)
PubchemXrefTypesEnum ==
  <<"RegistryID", "RN", "PubMedID", "PatentID", "GeneID", "ProteinGI",
    "TaxonomyID">>

\* The tags requests are drawn from: the first NumTypes of the enum.
XrefTypes ==
  {PubchemXrefTypesEnum[k] : k \in 1 .. Min(NumTypes, Len(PubchemXrefTypesEnum))}

\* Another tag than t (a field of a response that the call for t must not read).
OtherType(t) ==
  IF t = PubchemXrefTypesEnum[1] THEN PubchemXrefTypesEnum[2]
  ELSE PubchemXrefTypesEnum[1]

\* One entry of InformationList.Information: null, or an object holding one
\* xref field, whose value is an array of ids or a (truthy) string.
NullInfo == [kind |-> "null", field |-> "none", arr |-> FALSE, ids |-> << >>]
InfoObj(field, arr, ids) ==
  [kind |-> "obj", field |-> field, arr |-> arr, ids |-> ids]

InfosFor(t) ==
  {NullInfo, InfoObj(t, FALSE, << >>), InfoObj(t, TRUE, << >>),
   InfoObj(t, TRUE, <<11>>), InfoObj(OtherType(t), TRUE, <<99>>)}

\* An Information list of one entry or of two.
InfoLists(t) ==
  {<<a>> : a \in InfosFor(t)} \cup {<<a, b>> : a \in InfosFor(t), b \in InfosFor(t)}

\* The parsed bodies: null, {} (no InformationList), an InformationList without
\* Information, an Information that is no array (a number), and lists of entries.
XrefBodies(t) ==
  {[kind |-> k, infos |-> << >>] : k \in {"noList", "noInformation", "nonIterable"}}
    \cup {[kind |-> "infos", infos |-> l] : l \in InfoLists(t)}

\* What the call for tag t may meet.
XrefNetOutcomes(t) ==
  {NetTimeout}
    \cup {NetResponse(s, r, FALSE, NullBody) :
            s \in {400, 404, 500, 503}, r \in BOOLEAN}
    \cup {NetResponse(204, TRUE, FALSE, NullBody),
          NetResponse(200, FALSE, FALSE, NullBody),
          NetResponse(200, TRUE, FALSE, NullBody)}
    \cup {NetResponse(200, TRUE, TRUE, b) : b \in XrefBodies(t)}

(***************************************************************************)
(* pubchemFetchCompoundXrefsLogic: parsing, grouping and pagination.       *)
(***************************************************************************)
\* `if (info[xrefType] && Array.isArray(info[xrefType]))` and the push of each id.
ItemsOfInfo(info, xrefType) ==
  IF info.field = xrefType /\ info.arr
  THEN [k \in 1 .. Len(info.ids) |-> [type |-> xrefType, id |-> info.ids[k]]]
  ELSE << >>

\* `for (const info of response.InformationList.Information)`: the items pushed
\* and whether the loop threw (info[xrefType] of a null entry is a TypeError;
\* the items pushed before it stay in allXrefs).
RECURSIVE ParseInfos(_, _)
ParseInfos(infos, xrefType) ==
  IF infos = << >> THEN [items |-> << >>, threw |-> FALSE]
  ELSE IF Head(infos).kind = "null" THEN [items |-> << >>, threw |-> TRUE]
  ELSE LET rest == ParseInfos(Tail(infos), xrefType)
       IN  [items |-> ItemsOfInfo(Head(infos), xrefType) \o rest.items,
            threw |-> rest.threw]

\* Lines 148-156: `if (response?.InformationList?.Information)` and the loops.
\* for...of over an Information that is not iterable throws a TypeError.
ParseResponse(value, xrefType) ==
  CASE value.kind = "infos" -> ParseInfos(value.infos, xrefType)
    [] value.kind = "nonIterable" -> [items |-> << >>, threw |-> TRUE]
    [] OTHER -> [items |-> << >>, threw |-> FALSE]

\* The catch block of the per-type try: log a warning and continue with the
\* next type. The mutant rethrows the error of the failed call.
OnTypeErrorRethrow(err) == [rethrow |-> TRUE, error |-> err]

OnTypeError(err) == [rethrow |-> FALSE, error |-> "none"]

\* `if (allXrefs.length === 0)` throws NOT_FOUND. The mutant is the former
\* check of the response, which reported EXTERNAL_SERVICE_ERROR.
NoXrefsErrorLegacy == "EXTERNAL_SERVICE_ERROR"

NoXrefsError == "NOT_FOUND"

\* The accumulator the reduce starts from: {}. The mutant starts from one
\* empty list per requested type.
RECURSIVE InitialGroupsPerType(_)
InitialGroupsPerType(xrefTypes) ==
  IF xrefTypes = << >> THEN << >>
  ELSE LET rest == InitialGroupsPerType(Tail(xrefTypes))
       IN  IF \E k \in 1 .. Len(rest) : rest[k].type = Head(xrefTypes)
           THEN rest
           ELSE <<[type |-> Head(xrefTypes), ids |-> << >>]>> \o rest

InitialGroups(xrefTypes) == << >>

\* One step of the reduce: `if (!acc[type]) acc[type] = []; acc[type].push(id)`.
\* acc is the object as the list of its keys in insertion order with their
\* values. The mutant opens a new entry for every item.
GroupStepNoMerge(acc, item) ==
  Append(acc, [type |-> item.type, ids |-> <<item.id>>])

GroupStep(acc, item) ==
  IF \E k \in 1 .. Len(acc) : acc[k].type = item.type
  THEN [k \in 1 .. Len(acc) |->
          IF acc[k].type = item.type
          THEN [type |-> acc[k].type, ids |-> Append(acc[k].ids, item.id)]
          ELSE acc[k]]
  ELSE Append(acc, [type |-> item.type, ids |-> <<item.id>>])

RECURSIVE Reduce(_, _)
Reduce(acc, items) ==
  IF items = << >> THEN acc
  ELSE Reduce(GroupStep(acc, Head(items)), Tail(items))

\* Object.entries(groupedXrefs).map(...): the keys are tags of the enum, none
\* of them an integer index, so the entries come in insertion order. The mutant
\* yields them in reverse.
ObjectEntriesReversed(obj) ==
  [k \in 1 .. Len(obj) |-> obj[Len(obj) + 1 - k]]

ObjectEntries(obj) == obj

\* What is paginated: the groups. The mutant paginates the flat list of items,
\* one unit per value, as the logic did before it grouped by type.
PaginationUnitsFlat(groups, allItems) ==
  [k \in 1 .. Len(allItems) |->
     [type |-> allItems[k].type, ids |-> <<allItems[k].id>>]]

PaginationUnits(groups, allItems) == groups

\* Lines 193-211: totalRecords, totalPages, startIndex and the slice. The
\* mutant clamps a page beyond the last one to the last page.
PaginateClamped(units, page, pageSize) ==
  LET totalRecords == Len(units)
      totalPages == MathCeilDiv(totalRecords, pageSize)
      p == Min(page, Max(totalPages, 1))
      startIndex == (p - 1) * pageSize
  IN  [xrefs |-> JsSlice(units, startIndex, startIndex + pageSize),
       pagination |-> [currentPage |-> p, pageSize |-> pageSize,
                       totalRecords |-> totalRecords, totalPages |-> totalPages]]

Paginate(units, page, pageSize) ==
  LET totalRecords == Len(units)
      totalPages == MathCeilDiv(totalRecords, pageSize)
      startIndex == (page - 1) * pageSize
  IN  [xrefs |-> JsSlice(units, startIndex, startIndex + pageSize),
       pagination |-> [currentPage |-> page, pageSize |-> pageSize,
                       totalRecords |-> totalRecords, totalPages |-> totalPages]]

(***************************************************************************)
(* State.                                                                  *)
(***************************************************************************)
VARIABLES
  xpc,        \* pubchemFetchCompoundXrefsLogic: "idle", "loop" or "done"
  xparams,    \* its params: xrefTypes, page, pageSize
  xi,         \* the position in xrefTypes of the call awaited
  allXrefs,   \* the flat list of {type, id} items
  xcalls,     \* history: per call made, its type, whether get threw, and
              \* whether the body it returned holds a value for the type
  xresult     \* the outcome: the page returned or the error thrown

xvars == <<xpc, xparams, xi, allXrefs, xcalls, xresult>>

NoParams == [xrefTypes |-> << >>, page |-> 1, pageSize |-> 1]
NoPagination ==
  [currentPage |-> 0, pageSize |-> 0, totalRecords |-> 0, totalPages |-> 0]
NoResult ==
  [ok |-> FALSE, error |-> "none", xrefs |-> << >>, xrefGroups |-> << >>,
   pagination |-> NoPagination]

\* The inputs the schema admits: a non-empty list of tags (repeats allowed),
\* page >= 1 and pageSize >= 1.
XrefRequests ==
  [xrefTypes : UNION {[1 .. n -> XrefTypes] : n \in 1 .. MaxTypes},
   page : 1 .. MaxPage, pageSize : 1 .. MaxPageSize]

XrefsInit ==
  /\ xpc = "idle"
  /\ xparams = NoParams
  /\ xi = 0
  /\ allXrefs = << >>
  /\ xcalls = << >>
  /\ xresult = NoResult

\* A body holds a value for the type when some entry, reached before any null
\* entry, holds a non-empty array under the type's name.
BodyHasValue(value, xrefType) ==
  /\ value.kind = "infos"
  /\ \E k \in 1 .. Len(value.infos) :
       /\ \A j \in 1 .. k : value.infos[j].kind = "obj"
       /\ value.infos[k].field = xrefType
       /\ value.infos[k].arr
       /\ Len(value.infos[k].ids) > 0

\* Lines 167-218, run when the loop is over: the NOT_FOUND check, the reduce,
\* Object.entries and the pagination.
XrefsReturn(all, params) ==
  IF Len(all) = 0
  THEN [ok |-> FALSE, error |-> NoXrefsError, xrefs |-> << >>,
        xrefGroups |-> << >>, pagination |-> NoPagination]
  ELSE LET groupedXrefs == Reduce(InitialGroups(params.xrefTypes), all)
           xrefGroups == ObjectEntries(groupedXrefs)
           paged == Paginate(PaginationUnits(xrefGroups, all), params.page,
                             params.pageSize)
       IN  [ok |-> TRUE, error |-> "none", xrefs |-> paged.xrefs,
            xrefGroups |-> xrefGroups, pagination |-> paged.pagination]

\* `const allXrefs: TempXrefItem[] = []` (line 135): every call of the logic
\* starts from an empty list of its own. The mutant keeps one list for all
\* calls (a list declared at module level).
NewAllXrefsShared(old) == old

NewAllXrefs(old) == << >>

\* `for (const xrefType of xrefTypes)` with the awaited get in its body: the
\* logic calls get for the first entry and awaits it; the calls of the later
\* entries are made one by one, each when the one before it has settled. The
\* mutant makes the calls of all entries at once, as identifiers.map(async ...)
\* does, and awaits the last.
LoopFirstAwaitedAll(xrefTypes) == Len(xrefTypes)

LoopFirstAwaited(xrefTypes) == 1

\* The call of the logic with validated params; it runs to its first await.
XrefsStart ==
  /\ xpc = "idle"
  /\ \E params \in XrefRequests :
       /\ xparams' = params
       /\ xpc' = "loop"
       /\ xi' = LoopFirstAwaited(params.xrefTypes)
  /\ allXrefs' = NewAllXrefs(allXrefs)
  /\ UNCHANGED <<xcalls, xresult>>

\* The same call with a list of at most MaxShortTypes categories.
XrefsStartShort ==
  /\ XrefsStart
  /\ Len(xparams'.xrefTypes) <= MaxShortTypes

\* The try block of one type (lines 142-156): the awaited get and the parse of
\* its response. failed: get threw; threw: the block ended in the catch.
\* The mutant records a failed call in allXrefs, as an item without a value.
XrefsTryMarkingFailure(net, xrefType) ==
  LET r == get(net)
  IN  [failed |-> ~r.ok,
       error |-> IF r.ok THEN "TypeError" ELSE r.error,
       hasValue |-> r.ok /\ BodyHasValue(r.value, xrefType),
       parsed |-> IF r.ok THEN ParseResponse(r.value, xrefType)
                  ELSE [items |-> <<[type |-> xrefType, id |-> 0]>>,
                        threw |-> TRUE]]

XrefsTry(net, xrefType) ==
  LET r == get(net)
  IN  [failed |-> ~r.ok,
       error |-> IF r.ok THEN "TypeError" ELSE r.error,
       hasValue |-> r.ok /\ BodyHasValue(r.value, xrefType),
       parsed |-> IF r.ok THEN ParseResponse(r.value, xrefType)
                  ELSE [items |-> << >>, threw |-> TRUE]]

\* The ways the try block of a type can end, over everything its call may meet.
XrefsTryOutcomes ==
  [t \in XrefTypes |-> {XrefsTry(net, t) : net \in XrefNetOutcomes(t)}]

\* The awaited get of the type at xi settles; the logic parses the response or
\* catches the error, and goes on to the next type's call or, after the last
\* type, to the end of the function.
XrefsFetch ==
  /\ xpc = "loop"
  /\ \E try \in XrefsTryOutcomes[xparams.xrefTypes[xi]] :
       LET xrefType == xparams.xrefTypes[xi]
           caught == OnTypeError(try.error)
           all == allXrefs \o try.parsed.items
       IN  /\ xcalls' = Append(xcalls,
                 [type |-> xrefType, failed |-> try.failed,
                  hasValue |-> try.hasValue])
           /\ allXrefs' = all
           /\ IF try.parsed.threw /\ caught.rethrow
              THEN /\ xpc' = "done"
                   /\ xresult' = [NoResult EXCEPT !.error = caught.error]
                   /\ xi' = xi
              ELSE IF xi = Len(xparams.xrefTypes)
              THEN /\ xpc' = "done"
                   /\ xresult' = XrefsReturn(all, xparams)
                   /\ xi' = xi
              ELSE /\ xpc' = "loop"
                   /\ xresult' = xresult
                   /\ xi' = xi + 1
  /\ UNCHANGED xparams

(***************************************************************************)
(* Properties of the cross-reference aggregation.                          *)
(***************************************************************************)
XDone == xpc = "done"

\* The types of which some call returned at least one value.
ValueTypes == {xcalls[k].type : k \in {j \in 1 .. Len(xcalls) : xcalls[j].hasValue}}

TypesOf(groups) == {groups[k].type : k \in 1 .. Len(groups)}

\* The smallest n with n * pageSize >= total.
PagesNeeded(total, pageSize) ==
  CHOOSE n \in 0 .. total : n * pageSize >= total /\ (n - 1) * pageSize < total

\* The position in the request of the first occurrence of a type.
FirstRequested(t) ==
  CHOOSE k \in 1 .. Len(xparams.xrefTypes) :
    /\ xparams.xrefTypes[k] = t
    /\ \A j \in 1 .. k - 1 : xparams.xrefTypes[j] # t

\* The position of the first call of a type that returned a value.
FirstValueCall(t) ==
  CHOOSE k \in 1 .. Len(xcalls) :
    /\ xcalls[k].type = t /\ xcalls[k].hasValue
    /\ \A j \in 1 .. k - 1 : ~(xcalls[j].type = t /\ xcalls[j].hasValue)

\* C1: when some type's call returned at least one value, the aggregation
\* returns, whatever calls failed and with whatever error, and its unsliced
\* groups are exactly the types that returned a value: a type whose calls all
\* failed has no group and raises no error.
C1_PartialFailureTolerated ==
  (XDone /\ \E k \in 1 .. Len(xcalls) : xcalls[k].hasValue)
    => /\ xresult.ok
       /\ TypesOf(xresult.xrefGroups) = ValueTypes

C1_Witness ==
  /\ XDone /\ xresult.ok
  /\ Len(xcalls) = 3
  /\ xcalls[2].failed /\ xcalls[1].hasValue /\ xcalls[3].hasValue
  /\ xcalls[1].type # xcalls[3].type
  /\ xcalls[2].type \notin ValueTypes
  /\ Len(xresult.xrefGroups) = 2

\* C2: the aggregation ends only after every requested type was attempted, and
\* it fails exactly when no call returned a value; the failure is NOT_FOUND,
\* never the error of a failed call.
C2_FailsIffNothingFound ==
  XDone =>
    /\ Len(xcalls) = Len(xparams.xrefTypes)
    /\ (~xresult.ok) <=> (\A k \in 1 .. Len(xcalls) : ~xcalls[k].hasValue)
    /\ (~xresult.ok) => xresult.error = "NOT_FOUND"

C2_Witness ==
  /\ XDone /\ ~xresult.ok /\ xresult.error = "NOT_FOUND"
  /\ Len(xcalls) >= 2
  /\ \E k \in 1 .. Len(xcalls) : xcalls[k].failed
  /\ \E k \in 1 .. Len(xcalls) : ~xcalls[k].failed

\* C5: the page returned holds the groups at 0-based positions
\* (page-1)*pageSize .. min(page*pageSize, G)-1 of the ordered group list,
\* where G is the number of groups (one per type that returned a value, not one
\* per value); totalRecords = G and totalPages = ceil(G / pageSize).
C5_PaginationOverGroups ==
  (XDone /\ xresult.ok) =>
    LET G == Len(xresult.xrefGroups)
        page == xparams.page
        pageSize == xparams.pageSize
        first == (page - 1) * pageSize
        last == Min(page * pageSize, G)
    IN  /\ G = Cardinality(ValueTypes)
        /\ Len(xresult.xrefs) = Max(last - first, 0)
        /\ \A k \in 1 .. Len(xresult.xrefs) :
             xresult.xrefs[k] = xresult.xrefGroups[first + k]
        /\ xresult.pagination.totalRecords = G
        /\ xresult.pagination.totalPages = PagesNeeded(G, pageSize)

C5_Witness ==
  /\ XDone /\ xresult.ok
  /\ Len(xresult.xrefGroups) = 3
  /\ xparams.pageSize = 2 /\ xparams.page = 2
  /\ xresult.xrefs = <<xresult.xrefGroups[3]>>
  /\ xresult.pagination.totalPages = 2
  /\ \E k \in 1 .. 3 : Len(xresult.xrefGroups[k].ids) >= 2

\* C6: when a value was found and page lies beyond the last page, the call
\* returns an empty page with currentPage = page, the given pageSize,
\* totalRecords = number of groups and totalPages = ceil(total / pageSize).
C6_PageBeyondLastIsEmpty ==
  (/\ XDone
   /\ \E k \in 1 .. Len(xcalls) : xcalls[k].hasValue
   /\ xparams.page > PagesNeeded(Cardinality(ValueTypes), xparams.pageSize))
    => /\ xresult.ok
       /\ xresult.xrefs = << >>
       /\ xresult.pagination =
            [currentPage |-> xparams.page, pageSize |-> xparams.pageSize,
             totalRecords |-> Cardinality(ValueTypes),
             totalPages |-> PagesNeeded(Cardinality(ValueTypes), xparams.pageSize)]

C6_Witness ==
  /\ XDone /\ xresult.ok
  /\ Len(xresult.xrefGroups) = 2
  /\ xparams.pageSize = 2 /\ xparams.page = 2
  /\ xresult.xrefs = << >>
  /\ xresult.pagination.totalPages = 1

\* C7 as stated: a group comes before another only if the first occurrence of
\* its type in the request precedes the first occurrence of the other's.
C7_Original_RequestOrder ==
  (XDone /\ xresult.ok) =>
    \A a, b \in 1 .. Len(xresult.xrefGroups) :
      a < b => FirstRequested(xresult.xrefGroups[a].type)
                 < FirstRequested(xresult.xrefGroups[b].type)

\* C7, amended: the groups come in the order in which their types first
\* returned a value: a group comes before another only if the first call of
\* its type that returned a value precedes the first such call of the other's.
C7_OrderOfFirstValue ==
  (XDone /\ xresult.ok) =>
    \A a, b \in 1 .. Len(xresult.xrefGroups) :
      a < b => FirstValueCall(xresult.xrefGroups[a].type)
                 < FirstValueCall(xresult.xrefGroups[b].type)

C7_Witness ==
  /\ XDone /\ xresult.ok
  /\ Len(xcalls) = 3
  /\ xcalls[1].type = xcalls[3].type /\ xcalls[1].type # xcalls[2].type
  /\ xcalls[1].failed /\ xcalls[2].hasValue /\ xcalls[3].hasValue
  /\ Len(xresult.xrefGroups) = 2
  /\ xresult.xrefGroups[1].type = xcalls[2].type

\* C8: every group, of the full list and of the page, holds at least one
\* value; a type whose calls returned no value (missing field, non-array
\* field, empty array, null body) has no group and is not counted in the total.
C8_NoEmptyGroup ==
  (XDone /\ xresult.ok) =>
    /\ \A k \in 1 .. Len(xresult.xrefGroups) : Len(xresult.xrefGroups[k].ids) >= 1
    /\ \A k \in 1 .. Len(xresult.xrefs) : Len(xresult.xrefs[k].ids) >= 1
    /\ \A k \in 1 .. Len(xcalls) :
         xcalls[k].type \notin ValueTypes
           => xcalls[k].type \notin TypesOf(xresult.xrefGroups)
    /\ xresult.pagination.totalRecords = Cardinality(ValueTypes)

C8_Witness ==
  /\ XDone /\ xresult.ok
  /\ \E k \in 1 .. Len(xcalls) :
       /\ ~xcalls[k].failed
       /\ xcalls[k].type \notin ValueTypes
       /\ xcalls[k].type \notin TypesOf(xresult.xrefGroups)
  /\ xresult.pagination.totalRecords = 1

\* C9: no two groups share a type, in the full list and in the page, also when
\* a type's response holds several values or several Information entries; the
\* total counts each type once.
C9_OneGroupPerType ==
  (XDone /\ xresult.ok) =>
    /\ \A a, b \in 1 .. Len(xresult.xrefGroups) :
         a # b => xresult.xrefGroups[a].type # xresult.xrefGroups[b].type
    /\ \A a, b \in 1 .. Len(xresult.xrefs) :
         a # b => xresult.xrefs[a].type # xresult.xrefs[b].type
    /\ xresult.pagination.totalRecords = Cardinality(TypesOf(xresult.xrefGroups))

C9_Witness ==
  /\ XDone /\ xresult.ok
  /\ Len(xresult.xrefGroups) = 1
  /\ Len(xresult.xrefGroups[1].ids) = 3
  /\ Len(xcalls) = 2 /\ xcalls[1].hasValue /\ xcalls[2].hasValue

\* The page p of a list of groups, as the logic slices it, and the pages p to
\* last one after the other.
PageOf(groups, p, pageSize) == Paginate(groups, p, pageSize).xrefs

RECURSIVE PagesConcat(_, _, _, _)
PagesConcat(groups, p, last, pageSize) ==
  IF p > last THEN << >>
  ELSE PageOf(groups, p, pageSize) \o PagesConcat(groups, p + 1, last, pageSize)

\* C29: the pages partition the group list. For the groups and the pageSize
\* of a call that succeeded, totalPages >= 1; the pages 1 .. totalPages one
\* after the other are exactly the ordered group list, each group whole and in
\* one page only; every page before the last holds pageSize groups and the
\* last one between 1 and pageSize; and the page returned is the page asked
\* for.
C29_PagesPartition ==
  (XDone /\ xresult.ok) =>
    LET groups == xresult.xrefGroups
        pageSize == xparams.pageSize
        totalPages == xresult.pagination.totalPages
    IN  /\ totalPages >= 1
        /\ PagesConcat(groups, 1, totalPages, pageSize) = groups
        /\ \A p \in 1 .. totalPages - 1 : Len(PageOf(groups, p, pageSize)) = pageSize
        /\ Len(PageOf(groups, totalPages, pageSize)) \in 1 .. pageSize
        /\ \A p, q \in 1 .. totalPages :
             p # q => TypesOf(PageOf(groups, p, pageSize))
                        \cap TypesOf(PageOf(groups, q, pageSize)) = {}
        /\ xparams.page <= totalPages
             => xresult.xrefs = PageOf(groups, xparams.page, pageSize)

\* Three groups, one of them of two values, in pages of two: the first page
\* holds the first two groups and the second page the third.
C29_Witness ==
  /\ XDone /\ xresult.ok
  /\ Len(xresult.xrefGroups) = 3
  /\ \E k \in 1 .. 3 : Len(xresult.xrefGroups[k].ids) >= 2
  /\ xparams.pageSize = 2 /\ xparams.page = 1
  /\ xresult.pagination.totalPages = 2
  /\ xresult.xrefs = SubSeq(xresult.xrefGroups, 1, 2)
  /\ PageOf(xresult.xrefGroups, 2, 2) = <<xresult.xrefGroups[3]>>

(***************************************************************************)
(* The gateway client as a process: the shared rate limiter and requests.  *)
(***************************************************************************)
\* new RateLimiter({ tokensPerInterval: 5, interval: "second" })
tokensPerInterval == 5

\* const PUBCHEM_API_TIMEOUT_MS = 30000; // 30 seconds
PUBCHEM_API_TIMEOUT_MS == 30000

Callers == 1 .. NumCallers

\* PubChemApiClient.getInstance() / the exported pubChemApiClient: the client
\* (and so the limiter) a caller uses; one instance for the whole process.
\* The mutant constructs a client, with a limiter of its own, per caller.
getInstancePerCaller(c) == c

getInstance(c) == 1

VARIABLES
  lqueue,     \* per limiter: the callers suspended in removeTokens, in order
  lwindow,    \* per limiter: the ages (in ticks) of the permits it granted
              \* within the last second, oldest first
  acquired,   \* history: the ages of all acquisitions completed in the
              \* process within the last second, oldest first
  gpc,        \* per caller: "idle", "waiting", "fetching" or "done"
  gop,        \* per caller: the operation called, "get" or "getBlob"
  gnet,       \* per caller: what its fetch met
  gresult,    \* per caller: the outcome of the operation
  gpermits,   \* history, per caller: permits its current call has acquired
  gfetches,   \* history, per caller: network requests its current call sent
  glatency    \* history, per caller: after how many ms the upstream answered

gvars ==
  <<lqueue, lwindow, acquired, gpc, gop, gnet, gresult, gpermits, gfetches,
    glatency>>

NoOutcome == Returned(0, [kind |-> "none", infos |-> << >>])

GatewayInit ==
  /\ lqueue = [i \in Callers |-> << >>]
  /\ lwindow = [i \in Callers |-> << >>]
  /\ acquired = << >>
  /\ gpc = [c \in Callers |-> "idle"]
  /\ gop = [c \in Callers |-> "none"]
  /\ gnet = [c \in Callers |-> NetTimeout]
  /\ gresult = [c \in Callers |-> NoOutcome]
  /\ gpermits = [c \in Callers |-> 0]
  /\ gfetches = [c \in Callers |-> 0]
  /\ glatency = [c \in Callers |-> 0]

\* get or getBlob is called: executeRequest runs to
\* `await this.limiter.removeTokens(1)`.
\* The mutant goes to the fetch without asking the limiter.
ExecuteRequestBeginUnlimited(c, op) ==
  /\ gpc[c] = "idle"
  /\ gpc' = [gpc EXCEPT ![c] = "acquired"]
  /\ gop' = [gop EXCEPT ![c] = op]
  /\ UNCHANGED <<lqueue, lwindow, acquired, gnet, gresult, gpermits, gfetches,
                 glatency>>

ExecuteRequestBegin(c, op) ==
  /\ gpc[c] = "idle"
  /\ gpc' = [gpc EXCEPT ![c] = "waiting"]
  /\ gop' = [gop EXCEPT ![c] = op]
  /\ lqueue' = [lqueue EXCEPT ![getInstance(c)] = Append(@, c)]
  /\ UNCHANGED <<lwindow, acquired, gnet, gresult, gpermits, gfetches, glatency>>

\* `removeTokens(1)`: the tokens a request asks for. The mutant asks for more
\* than the limiter ever holds.
RemoveTokensCountOverQuota == tokensPerInterval + 1

RemoveTokensCount == 1

\* `interval: "second"`: the length of the limiter's window, in ticks. The
\* mutant is a window of half a second.
LimiterIntervalTicksHalved == TicksPerSecond \div 2

LimiterIntervalTicks == TicksPerSecond

\* The limiter can let removeTokens return for caller c: c is at the head of
\* the queue and the tokens asked for are left of the quota of the last
\* interval.
CanReturn(c) ==
  LET i == getInstance(c)
  IN  /\ gpc[c] = "waiting"
      /\ lqueue[i] # << >> /\ Head(lqueue[i]) = c
      /\ Len(lwindow[i]) + RemoveTokensCount <= tokensPerInterval

\* The limiter: removeTokens(1) returns for the caller at the head of the
\* queue once fewer than tokensPerInterval permits were granted within the
\* last second.
RemoveTokensReturn(c) ==
  LET i == getInstance(c)
      taken == [k \in 1 .. RemoveTokensCount |-> 0]
  IN  /\ CanReturn(c)
      /\ lqueue' = [lqueue EXCEPT ![i] = Tail(@)]
      /\ lwindow' = [lwindow EXCEPT ![i] = @ \o taken]
      /\ acquired' = acquired \o taken

\* Time passes by one tick: permits older than a second leave the windows.
Aged(ages) ==
  LET kept == {k \in 1 .. Len(ages) : ages[k] + 1 < LimiterIntervalTicks}
      drop == Len(ages) - Cardinality(kept)
  IN  [k \in 1 .. Cardinality(kept) |-> ages[k + drop] + 1]

Tick ==
  /\ lwindow' = [i \in Callers |-> Aged(lwindow[i])]
  /\ acquired' = Aged(acquired)
  /\ UNCHANGED <<lqueue, gpc, gop, gnet, gresult, gpermits, gfetches, glatency>>

(***************************************************************************)
(* The batch operations: pubchemFetchCompoundPropertiesLogic,              *)
(* pubchemSearchCompoundByIdentifierLogic and fetchAssaySummary (with its  *)
(* five siblings of pubchemGetSummaryLogic). Each maps its inputs to async *)
(* callbacks, one get per input, and awaits Promise.all.                   *)
(***************************************************************************)
\* Inputs are named by their index: the CID k, or the identifier of index k.
InputIds == 1 .. NumInputs

IdentifierName(k) == <<"aspirin", "ibuprofen", "caffeine", "glucose">>[k]

\* The bodies of /compound/cid/<cid>/property/.../JSON: no PropertyTable, or a
\* table of no, one or two entries (entries carry the CID asked for).
PropertyBodies(cid) ==
  {[kind |-> "noTable", infos |-> << >>]}
    \cup {[kind |-> "table", infos |-> l] :
            l \in {<< >>, <<[CID |-> cid]>>, <<[CID |-> cid], [CID |-> cid]>>}}

\* The bodies of /compound/<type>/<identifier>/cids/JSON: a Fault without
\* IdentifierList, or a list of CIDs (here derived from the identifier).
IdentifierBodies(k) ==
  {[kind |-> "fault", infos |-> << >>]}
    \cup {[kind |-> "list", infos |-> l] : l \in {<<100 + k>>, <<100 + k, 200 + k>>}}

BatchNetOutcomes(bodies) ==
  {NetTimeout, NetResponse(404, TRUE, FALSE, NullBody),
   NetResponse(503, FALSE, FALSE, NullBody),
   NetResponse(204, TRUE, FALSE, NullBody),
   NetResponse(200, TRUE, FALSE, NullBody)}
    \cup {NetResponse(200, TRUE, TRUE, b) : b \in bodies}

\* The callback of the property fetch (lines 122-138): the Properties of the
\* response or [], and [] when get throws.
PropertiesCallback(net) ==
  LET r == get(net)
  IN  [failed |-> ~r.ok, thrown |-> "none",
       value |-> IF r.ok /\ r.value.kind = "table" THEN r.value.infos ELSE << >>]

\* The callback of the identifier search (lines 79-102): what it stores under
\* results[identifier].
IdentifierCallback(net) ==
  LET r == get(net)
  IN  [failed |-> ~r.ok, thrown |-> "none",
       value |-> IF r.ok /\ r.value.kind = "list" THEN r.value.infos ELSE << >>]

\* The bodies of /assay/aid/<id>/summary/JSON: no AssaySummaries, or a list of
\* no or one summary (carrying the AID asked for).
SummaryBodies(id) ==
  {[kind |-> "noSummaries", infos |-> << >>]}
    \cup {[kind |-> "summaries", infos |-> l] : l \in {<< >>, <<[AID |-> id]>>}}

\* The callback of fetchAssaySummary (lines 121-126): the AssaySummary list of
\* the response or []; there is no try around the get, so what get throws
\* rejects the callback's promise.
SummaryCallback(net) ==
  LET r == get(net)
  IN  [failed |-> ~r.ok, thrown |-> r.error,
       value |-> IF r.ok /\ r.value.kind = "summaries" THEN r.value.infos ELSE << >>]

PropertiesCallbackOutcomes ==
  [k \in InputIds |-> {PropertiesCallback(net) :
                         net \in BatchNetOutcomes(PropertyBodies(k))}]

IdentifierCallbackOutcomes ==
  [k \in InputIds |-> {IdentifierCallback(net) :
                         net \in BatchNetOutcomes(IdentifierBodies(k))}]

SummaryCallbackOutcomes ==
  [k \in InputIds |-> {SummaryCallback(net) :
                         net \in BatchNetOutcomes(SummaryBodies(k))}]

\* `results[identifier] = value` on an object given as the list of its keys
\* in insertion order (the identifiers here are no integer indices).
ObjectSet(obj, key, val) ==
  IF \E k \in 1 .. Len(obj) : obj[k].key = key
  THEN [k \in 1 .. Len(obj) |->
          IF obj[k].key = key THEN [key |-> key, val |-> val] ELSE obj[k]]
  ELSE Append(obj, [key |-> key, val |-> val])

\* Promise.all(promises): the values of the promises by position. The mutant
\* lists them in the order in which they settled.
PromiseAllBySettlement(values, order) ==
  [k \in 1 .. Len(order) |-> values[order[k]]]

PromiseAll(values, order) == values

\* Array.prototype.flat() of a list of lists.
RECURSIVE Flat(_)
Flat(lists) ==
  IF lists = << >> THEN << >> ELSE Head(lists) \o Flat(Tail(lists))

VARIABLES
  fop,        \* the batch operation running: "none", "properties",
              \* "identifiers" or "summary"
  fpc,        \* "idle", "pending" (awaiting Promise.all) or "done"
  finputs,    \* its inputs (cids / identifiers), by index
  fsettled,   \* per position: whether the callback's promise has settled
  fvalues,    \* per position: the value its promise resolved with
  fcalls,     \* history: per position, whether its get threw and what the
              \* callback made of the response
  forder,     \* history: the positions in the order in which they settled
  fobject,    \* the results object of the identifier search
  fresult     \* the outcome of the operation

fvars == <<fop, fpc, finputs, fsettled, fvalues, fcalls, forder, fobject, fresult>>

NoBatchResult ==
  [ok |-> FALSE, error |-> "none", results |-> << >>, all |-> << >>]
NoCall == [failed |-> FALSE, thrown |-> "none", value |-> << >>]

FanoutInit ==
  /\ fop = "none"
  /\ fpc = "idle"
  /\ finputs = << >>
  /\ fsettled = << >>
  /\ fvalues = << >>
  /\ fcalls = << >>
  /\ forder = << >>
  /\ fobject = << >>
  /\ fresult = NoBatchResult

\* The lists of inputs the schemas admit: non-empty, repeats allowed.
BatchInputs == UNION {[1 .. n -> InputIds] : n \in 1 .. MaxBatch}

\* A batch operation is called: cids.map / identifiers.map starts every
\* callback, each running to its awaited get, and the logic awaits Promise.all.
FanoutStart(op) ==
  /\ fpc = "idle"
  /\ \E inputs \in BatchInputs :
       /\ finputs' = inputs
       /\ fsettled' = [k \in 1 .. Len(inputs) |-> FALSE]
       /\ fvalues' = [k \in 1 .. Len(inputs) |-> << >>]
       /\ fcalls' = [k \in 1 .. Len(inputs) |-> NoCall]
  /\ fop' = op
  /\ fpc' = "pending"
  /\ UNCHANGED <<forder, fobject, fresult>>

\* Lines 140-160 of the property fetch, run when the last promise has settled.
PropertiesReturn(values, order) ==
  LET results == PromiseAll(values, order)
      allProperties == Flat(results)
  IN  IF Len(allProperties) = 0
      THEN [ok |-> FALSE, error |-> "NOT_FOUND", results |-> << >>, all |-> results]
      ELSE [ok |-> TRUE, error |-> "none", results |-> allProperties, all |-> results]

\* The get of the callback at position k settles (in any order among the
\* pending ones); the callback returns its value. When it is the last one,
\* Promise.all resolves and the logic runs to its end.
PropertiesSettle(k) ==
  /\ fop = "properties" /\ fpc = "pending"
  /\ k \in 1 .. Len(finputs) /\ ~fsettled[k]
  /\ \E out \in PropertiesCallbackOutcomes[finputs[k]] :
       LET values == [fvalues EXCEPT ![k] = out.value]
           order == Append(forder, k)
           settled == [fsettled EXCEPT ![k] = TRUE]
       IN  /\ fvalues' = values
           /\ forder' = order
           /\ fsettled' = settled
           /\ fcalls' = [fcalls EXCEPT ![k] = out]
           /\ IF \A j \in 1 .. Len(finputs) : settled[j]
              THEN /\ fpc' = "done"
                   /\ fresult' = PropertiesReturn(values, order)
              ELSE /\ fpc' = "pending"
                   /\ fresult' = fresult
  /\ UNCHANGED <<fop, finputs, fobject>>

\* The same for the identifier search: the callback stores its list under
\* results[identifier]; after the last one the logic returns { results }.
IdentifierSettle(k) ==
  /\ fop = "identifiers" /\ fpc = "pending"
  /\ k \in 1 .. Len(finputs) /\ ~fsettled[k]
  /\ \E out \in IdentifierCallbackOutcomes[finputs[k]] :
       LET object == ObjectSet(fobject, IdentifierName(finputs[k]), out.value)
           settled == [fsettled EXCEPT ![k] = TRUE]
       IN  /\ fobject' = object
           /\ fvalues' = fvalues
           /\ forder' = Append(forder, k)
           /\ fsettled' = settled
           /\ fcalls' = [fcalls EXCEPT ![k] = out]
           /\ IF \A j \in 1 .. Len(finputs) : settled[j]
              THEN /\ fpc' = "done"
                   /\ fresult' = [ok |-> TRUE, error |-> "none",
                                  results |-> object, all |-> << >>]
              ELSE /\ fpc' = "pending"
                   /\ fresult' = fresult
  /\ UNCHANGED <<fop, finputs>>

\* Lines 128-142 of fetchAssaySummary, run when every promise has resolved.
SummaryReturn(values, order) ==
  LET results == PromiseAll(values, order)
      summaries == Flat(results)
  IN  IF Len(summaries) = 0
      THEN [ok |-> FALSE, error |-> "NOT_FOUND", results |-> << >>, all |-> results]
      ELSE [ok |-> TRUE, error |-> "none",
            results |-> [j \in 1 .. Len(summaries) |-> [aid |-> summaries[j].AID]],
            all |-> results]

\* The get of the summary callback at position k settles. A callback that
\* rejects makes Promise.all reject at once with its error, which leaves
\* fetchAssaySummary and pubchemGetSummaryLogic uncaught.
SummarySettle(k) ==
  /\ fop = "summary" /\ fpc = "pending"
  /\ k \in 1 .. Len(finputs) /\ ~fsettled[k]
  /\ \E out \in SummaryCallbackOutcomes[finputs[k]] :
       LET values == [fvalues EXCEPT ![k] = out.value]
           order == Append(forder, k)
           settled == [fsettled EXCEPT ![k] = TRUE]
       IN  /\ fvalues' = values
           /\ forder' = order
           /\ fsettled' = settled
           /\ fcalls' = [fcalls EXCEPT ![k] = out]
           /\ IF out.thrown # "none"
              THEN /\ fpc' = "done"
                   /\ fresult' = [ok |-> FALSE, error |-> out.thrown,
                                  results |-> << >>, all |-> << >>]
              ELSE IF \A j \in 1 .. Len(finputs) : settled[j]
              THEN /\ fpc' = "done"
                   /\ fresult' = SummaryReturn(values, order)
              ELSE /\ fpc' = "pending"
                   /\ fresult' = fresult
  /\ UNCHANGED <<fop, finputs, fobject>>

(***************************************************************************)
(* The aggregation called twice with the same params against an upstream   *)
(* whose answers do not change.                                            *)
(***************************************************************************)
VARIABLES
  xrun,        \* which of the two calls is running: 1 or 2
  xitems,      \* history: per call of get in this run, the items it added
  xprev,       \* the outcome of the first call
  xprevCalls,  \* xcalls of the first call
  xprevItems   \* xitems of the first call

tvars == <<xrun, xitems, xprev, xprevCalls, xprevItems>>

TwiceInit ==
  /\ xrun = 1
  /\ xitems = << >>
  /\ xprev = NoResult
  /\ xprevCalls = << >>
  /\ xprevItems = << >>

\* The first call of the logic.
TwiceStart ==
  /\ xrun = 1
  /\ XrefsStartShort
  /\ UNCHANGED tvars

\* One iteration of the loop against the unchanged upstream: a category asked
\* before in this call is answered as it was then, and in the second call
\* every get is answered as the same get of the first call was.
TwiceFetch ==
  /\ XrefsFetch
  /\ LET k == Len(xcalls) + 1
         added == SubSeq(allXrefs', Len(allXrefs) + 1, Len(allXrefs'))
     IN  /\ xitems' = Append(xitems, added)
         /\ \A j \in 1 .. Len(xcalls) :
              xcalls[j].type = xcalls'[k].type
                => xcalls'[k] = xcalls[j] /\ added = xitems[j]
         /\ xrun = 2 => xcalls'[k] = xprevCalls[k] /\ added = xprevItems[k]
  /\ UNCHANGED <<xrun, xprev, xprevCalls, xprevItems>>

\* The first call has returned or thrown; the caller calls the logic again
\* with the same params.
TwiceCallAgain ==
  /\ xrun = 1 /\ xpc = "done"
  /\ xrun' = 2
  /\ xprev' = xresult
  /\ xprevCalls' = xcalls
  /\ xprevItems' = xitems
  /\ xpc' = "loop"
  /\ xi' = 1
  /\ allXrefs' = NewAllXrefs(allXrefs)
  /\ xcalls' = << >>
  /\ xitems' = << >>
  /\ xresult' = NoResult
  /\ UNCHANGED xparams

\* The second of two calls that differ from each other only in categories
\* whose call failed in one of them and succeeded without a value in the
\* other: every get of the second call is answered as the same get of the
\* first call was, or fails where that one returned a body without a value for
\* its category, or returns such a body where that one failed.
PairFetch ==
  /\ XrefsFetch
  /\ LET k == Len(xcalls) + 1
         added == SubSeq(allXrefs', Len(allXrefs) + 1, Len(allXrefs'))
     IN  /\ xitems' = Append(xitems, added)
         /\ xrun = 2 =>
              \/ xcalls'[k] = xprevCalls[k] /\ added = xprevItems[k]
              \/ /\ xcalls'[k].failed # xprevCalls[k].failed
                 /\ ~xcalls'[k].hasValue /\ ~xprevCalls[k].hasValue
  /\ UNCHANGED <<xrun, xprev, xprevCalls, xprevItems>>

(***************************************************************************)
(* The operations that make one request (two for the substance details):   *)
(* the structure, similarity and formula searches, the assay search by     *)
(* target, the assay summary, the substance details and the compound image.*)
(***************************************************************************)
\* Strings are sequences of characters.
Digits == {"0", "1", "2", "3", "4", "5", "6", "7", "8", "9"}

\* parseInt skips leading white space,
RECURSIVE TrimStart(_)
TrimStart(str) ==
  IF str # << >> /\ Head(str) = " " THEN TrimStart(Tail(str)) ELSE str

\* takes a sign, and reads digits up to the first character that is none:
\* isNaN(parseInt(query, 10)) holds when there is no digit to read.
ParseIntIsNaN(query) ==
  LET t == TrimStart(query)
      u == IF t # << >> /\ Head(t) \in {"+", "-"} THEN Tail(t) ELSE t
  IN  u = << >> \/ Head(u) \notin Digits

\* The queries tried (z.string().min(1)) and the two query types.
Queries ==
  {<<"2", "2", "4", "4">>, <<"7">>, <<"C", "C", "O">>, <<"1", "2", "a">>,
   <<" ", "7">>, <<"-", "5">>, <<"-">>, <<"1", ".", "5">>, <<"c", "1">>}

QueryTypes == {"smiles", "cid"}

NoQuery == [queryType |-> "none", query |-> << >>]

\* The check of the structure and similarity searches on their input:
\* `if (queryType === "cid" && isNaN(parseInt(query, 10))) throw ...`
InputCoherent(queryType, query) ==
  ~(queryType = "cid" /\ ParseIntIsNaN(query))

OpNames ==
  {"structure", "similarity", "formula", "assaysByTarget", "assaySummary",
   "substanceDetails", "image"}

ValidatingOps == {"structure", "similarity"}

\* The requests an operation makes.
OpCallsOf(op) ==
  IF op = "substanceDetails" THEN <<"details", "cids">>
  ELSE IF op = "image" THEN <<"blob">>
  ELSE <<"main">>

\* The bodies a request of an operation may be answered with.
OpBodies(op, call) ==
  IF op = "assaySummary"
  THEN {[kind |-> "noSummaries", infos |-> << >>],
        [kind |-> "summaries", infos |-> << >>],
        [kind |-> "summaries", infos |-> <<1>>]}
  ELSE IF op = "substanceDetails" /\ call = "details"
  THEN {[kind |-> "noSubstances", infos |-> << >>],
        [kind |-> "substances", infos |-> <<1>>]}
  ELSE IF op = "image"
  THEN {[kind |-> "bytes", infos |-> << >>]}
  ELSE {[kind |-> "fault", infos |-> << >>],
        [kind |-> "noList", infos |-> << >>],
        [kind |-> "list", infos |-> <<1>>]}

OpNetOutcomes(op, call) ==
  {NetTimeout,
   NetResponse(400, TRUE, FALSE, NullBody),
   NetResponse(404, TRUE, FALSE, NullBody),
   NetResponse(503, TRUE, FALSE, NullBody),
   NetResponse(500, FALSE, FALSE, NullBody),
   NetResponse(204, TRUE, FALSE, NullBody),
   NetResponse(200, TRUE, FALSE, NullBody)}
    \cup {NetResponse(200, TRUE, TRUE, b) : b \in OpBodies(op, call)}

OpGatewayCall(op, net) == IF op = "image" THEN getBlob(net) ELSE get(net)

OpCallOutcomes ==
  [op \in OpNames |->
     [call \in {"main", "details", "cids", "blob"} |->
        {OpGatewayCall(op, net) : net \in OpNetOutcomes(op, call)}]]

\* What an operation throws when a request of its own throws err: the image
\* logic catches every error and throws EXTERNAL_SERVICE_ERROR; the others
\* have no try around the request. The mutant wraps the error everywhere.
OpOnErrorWrapAll(op, err) == "EXTERNAL_SERVICE_ERROR"

OpOnError(op, err) ==
  IF op = "image" THEN "EXTERNAL_SERVICE_ERROR" ELSE err

OpFailed(code) == [ok |-> FALSE, error |-> code, value |-> "none"]
OpOk(value) == [ok |-> TRUE, error |-> "none", value |-> value]

\* The rest of an operation once all its requests have returned.
OpReturn(op, values) ==
  IF op = "image" THEN OpOk("blob")
  ELSE IF op = "assaySummary"
  THEN IF values[1].kind = "summaries" /\ values[1].infos # << >>
       THEN OpOk("summaries") ELSE OpFailed("NOT_FOUND")
  ELSE IF op = "substanceDetails"
  THEN IF values[1].kind = "substances"
       THEN OpOk("substance") ELSE OpFailed("EXTERNAL_SERVICE_ERROR")
  ELSE IF values[1].kind = "fault" THEN OpFailed("EXTERNAL_SERVICE_ERROR")
  ELSE IF values[1].kind = "list" THEN OpOk("cids")
  ELSE OpOk("empty")

VARIABLES
  oop,      \* the operation called, or "none"
  opc,      \* "idle", "pending" (awaiting its requests) or "done"
  oparams,  \* queryType and query of a structure or similarity search
  ocalls,   \* the calls of get / getBlob made, each with its outcome once settled
  oresult   \* the outcome of the operation

ovars == <<oop, opc, oparams, ocalls, oresult>>

NoOpCall(name) ==
  [name |-> name, settled |-> FALSE, failed |-> FALSE, error |-> "none",
   value |-> NullBody]

OpsInit ==
  /\ oop = "none"
  /\ opc = "idle"
  /\ oparams = NoQuery
  /\ ocalls = << >>
  /\ oresult = OpFailed("none")

\* An operation is called: the structure and similarity searches check their
\* input first; then the requests are made and awaited.
OpStart(op) ==
  /\ opc = "idle"
  /\ oop' = op
  /\ \E params \in IF op \in ValidatingOps
                   THEN [queryType : QueryTypes, query : Queries]
                   ELSE {NoQuery} :
       /\ oparams' = params
       /\ IF op \in ValidatingOps /\ ~InputCoherent(params.queryType, params.query)
          THEN /\ opc' = "done"
               /\ ocalls' = << >>
               /\ oresult' = OpFailed("INVALID_INPUT")
          ELSE /\ opc' = "pending"
               /\ ocalls' = [k \in 1 .. Len(OpCallsOf(op)) |-> NoOpCall(OpCallsOf(op)[k])]
               /\ oresult' = oresult

\* A request settles. The first one to throw ends the operation (Promise.all
\* rejects at once); when all have returned the operation runs to its end.
OpSettle(k) ==
  /\ opc = "pending"
  /\ k \in 1 .. Len(ocalls) /\ ~ocalls[k].settled
  /\ \E r \in OpCallOutcomes[oop][ocalls[k].name] :
       LET calls == [ocalls EXCEPT ![k] =
                       [name |-> @.name, settled |-> TRUE, failed |-> ~r.ok,
                        error |-> r.error, value |-> r.value]]
       IN  /\ ocalls' = calls
           /\ IF ~r.ok
              THEN /\ opc' = "done"
                   /\ oresult' = OpFailed(OpOnError(oop, r.error))
              ELSE IF \A j \in 1 .. Len(calls) : calls[j].settled
              THEN /\ opc' = "done"
                   /\ oresult' = OpReturn(oop, [j \in 1 .. Len(calls) |-> calls[j].value])
              ELSE /\ opc' = "pending"
                   /\ oresult' = oresult
  /\ UNCHANGED <<oop, oparams>>

(***************************************************************************)
(* Callers of the limiter observed: in which order they asked for a permit *)
(* and when each got it.                                                   *)
(***************************************************************************)
VARIABLES
  bwaiting,   \* history: the callers whose removeTokens has not returned, in
              \* the order in which they called it
  blast,      \* history: the caller whose removeTokens returned last, and
              \* bwaiting as it was just before
  bcalled,    \* history of a burst: the callers in the order of their calls
  bgrants,    \* history of a burst: per return of removeTokens, in order, the
              \* caller and the time (in ticks since the start)
  bnow        \* the time of a burst, in ticks since the start

bvars == <<bwaiting, blast, bcalled, bgrants, bnow>>

NoLast == [caller |-> 0, before |-> << >>]

AcquireInit ==
  /\ bwaiting = << >>
  /\ blast = NoLast
  /\ bcalled = << >>
  /\ bgrants = << >>
  /\ bnow = 0

\* The callers that call get again and again.
AcquireCallers == 1 .. NumWaiters

\* A caller calls get: executeRequest runs to its removeTokens.
AcquireCall(c) ==
  /\ ExecuteRequestBegin(c, "get")
  /\ bwaiting' = Append(bwaiting, c)
  /\ UNCHANGED <<blast, bcalled, bgrants, bnow>>

\* removeTokens returns for a caller (which goes on and, its request over,
\* may call again).
AcquireReturn(c) ==
  /\ RemoveTokensReturn(c)
  /\ gpc' = [gpc EXCEPT ![c] = "idle"]
  /\ gop' = [gop EXCEPT ![c] = "none"]
  /\ blast' = [caller |-> c, before |-> bwaiting]
  /\ bwaiting' = SelectSeq(bwaiting, LAMBDA w : w # c)
  /\ UNCHANGED <<gnet, gresult, gpermits, gfetches, glatency>>
  /\ UNCHANGED <<bcalled, bgrants, bnow>>

\* How far the clock of a burst counts.
MaxClock == 2 * TicksPerSecond

\* A burst: callers call get at the start, all at the same time.
BurstCall(c) ==
  /\ bnow = 0
  /\ \A k \in 1 .. Len(bcalled) : bcalled[k] # c
  /\ ExecuteRequestBegin(c, "get")
  /\ bcalled' = Append(bcalled, c)
  /\ UNCHANGED <<bwaiting, blast, bgrants, bnow>>

BurstReturn(c) ==
  /\ RemoveTokensReturn(c)
  /\ gpc' = [gpc EXCEPT ![c] = "idle"]
  /\ gop' = [gop EXCEPT ![c] = "none"]
  /\ bgrants' = Append(bgrants, [caller |-> c, at |-> bnow])
  /\ UNCHANGED <<gnet, gresult, gpermits, gfetches, glatency>>
  /\ UNCHANGED <<bwaiting, blast, bcalled, bnow>>

\* Time passes only when the limiter has no permit to hand out: removeTokens
\* returns without delay while tokens are left.
BurstTick ==
  /\ \A c \in Callers : ~CanReturn(c)
  /\ Tick
  /\ bnow' = Min(bnow + 1, MaxClock)
  /\ UNCHANGED <<bwaiting, blast, bcalled, bgrants>>

vars == <<xvars, gvars, fvars, tvars, ovars, bvars>>

Init ==
  XrefsInit /\ GatewayInit /\ FanoutInit /\ TwiceInit /\ OpsInit /\ AcquireInit

\* One aggregation, from its call to its return.
XrefsNext ==
  \/ XrefsStart /\ UNCHANGED <<gvars, fvars, tvars, ovars, bvars>>
  \/ XrefsFetch /\ UNCHANGED <<gvars, fvars, tvars, ovars, bvars>>

SpecXrefs == Init /\ [][XrefsNext]_vars

\* The limiter alone: callers ask for a permit, get it and ask again.
LimiterRequest == \E c \in Callers : ExecuteRequestBegin(c, "get")

LimiterGrant ==
  \E c \in Callers :
    /\ RemoveTokensReturn(c)
    /\ gpc' = [gpc EXCEPT ![c] = "idle"]
    /\ gop' = [gop EXCEPT ![c] = "none"]
    /\ UNCHANGED <<gnet, gresult, gpermits, gfetches, glatency>>

LimiterNext ==
  \/ LimiterRequest /\ UNCHANGED <<xvars, fvars, tvars, ovars, bvars>>
  \/ LimiterGrant /\ UNCHANGED <<xvars, fvars, tvars, ovars, bvars>>
  \/ Tick /\ UNCHANGED <<xvars, fvars, tvars, ovars, bvars>>

SpecLimiter == Init /\ [][LimiterNext]_vars

\* C3: in every reachable state, whatever the interleaving of the callers, at
\* most 5 permit acquisitions completed within the last second, counted over
\* the whole process.
C3_AtMostQuotaPerWindow == Len(acquired) <= 5

C3_Witness ==
  /\ Len(acquired) = 5
  /\ acquired[1] # acquired[5]
  /\ \E c \in Callers : gpc[c] = "waiting"

(***************************************************************************)
(* The limiter under fair scheduling and advancing time.                   *)
(***************************************************************************)
AcquireCalls ==
  \E c \in AcquireCallers : AcquireCall(c) /\ UNCHANGED <<xvars, fvars, tvars, ovars>>

AcquireReturns ==
  \E c \in AcquireCallers : AcquireReturn(c) /\ UNCHANGED <<xvars, fvars, tvars, ovars>>

AcquireTick == Tick /\ UNCHANGED <<xvars, fvars, tvars, ovars, bvars>>

AcquireNext ==
  \/ AcquireCalls
  \/ AcquireReturns
  \/ AcquireTick

\* Time advances, and a removeTokens that can return does return.
SpecAcquire ==
  Init /\ [][AcquireNext]_vars /\ WF_vars(AcquireTick) /\ WF_vars(AcquireReturns)

\* C22: acquire can only delay. Under fair scheduling and advancing time every
\* caller that waits in removeTokens gets its permit, however many callers
\* wait with it and however often the others ask again.
C22_EveryAcquireReturns ==
  \A c \in AcquireCallers : (gpc[c] = "waiting") ~> (gpc[c] = "idle")

\* All callers wait, the quota of the last second being used up, after a
\* caller that had waited with another got its permit.
C22_Witness ==
  /\ Len(bwaiting) = NumWaiters
  /\ \A c \in AcquireCallers : gpc[c] = "waiting"
  /\ Len(lwindow[getInstance(1)]) = tokensPerInterval
  /\ Len(blast.before) >= 2

\* C26: permits are granted in request order. The caller whose removeTokens
\* returns is, of all the callers waiting at that moment, the one that called
\* first: no caller's acquisition completes after that of a caller that
\* called later.
C26_GrantedInRequestOrder ==
  blast.before # << >> => blast.caller = Head(blast.before)

\* Three callers waited; the one that had called first got its permit and the
\* two that called after it still wait, in their order.
C26_Witness ==
  /\ Len(blast.before) = 3
  /\ blast.caller = Head(blast.before)
  /\ bwaiting = Tail(blast.before)
  /\ \A k \in 1 .. 2 : gpc[bwaiting[k]] = "waiting"

(***************************************************************************)
(* A burst of requests on the fresh limiter.                               *)
(***************************************************************************)
BurstNext ==
  \/ \E c \in Callers : BurstCall(c) /\ UNCHANGED <<xvars, fvars, tvars, ovars>>
  \/ \E c \in Callers : BurstReturn(c) /\ UNCHANGED <<xvars, fvars, tvars, ovars>>
  \/ BurstTick /\ UNCHANGED <<xvars, fvars, tvars, ovars>>

SpecBurst == Init /\ [][BurstNext]_vars

\* C27: of M > Q acquisitions requested together on the fresh limiter, the
\* first Q (in the order of the calls) complete within the first second, none
\* of them being put off to a later window, and each of the others completes
\* only when a second has passed.
C27_BurstByWindows ==
  /\ \A k \in 1 .. Len(bgrants) :
       /\ bgrants[k].caller = bcalled[k]
       /\ k <= tokensPerInterval => bgrants[k].at < TicksPerSecond
       /\ k > tokensPerInterval => bgrants[k].at >= TicksPerSecond
  /\ (Len(bcalled) > tokensPerInterval /\ bnow >= TicksPerSecond)
       => Len(bgrants) >= tokensPerInterval

\* Six acquisitions were requested at once: five completed at once and the
\* sixth when the second was over.
C27_Witness ==
  /\ Len(bcalled) = 6 /\ Len(bgrants) = 6
  /\ \A k \in 1 .. 5 : bgrants[k].at = 0
  /\ bgrants[6].at = TicksPerSecond

(***************************************************************************)
(* Requests through the gateway: two callers, each calling get or getBlob  *)
(* again and again.                                                        *)
(***************************************************************************)
GatewayCallers == {1, 2}

\* What the upstream may answer: any of the statuses with a body that can or
\* cannot be read and is or is not JSON.
GatewayResponses ==
  {NetResponse(s, r, FALSE, NullBody) :
            s \in {t \in HttpStatuses : ~ResponseOk(t)}, r \in BOOLEAN}
    \cup {NetResponse(204, r, FALSE, NullBody) : r \in BOOLEAN}
    \cup {NetResponse(s, FALSE, FALSE, NullBody) : s \in {200, 202}}
    \cup {NetResponse(s, TRUE, j, [kind |-> "noList", infos |-> << >>]) :
            s \in {200, 202}, j \in BOOLEAN}

\* After how many milliseconds the upstream answers a request.
LatenciesMs == {100, 30001, 60001}

\* The timeout executeRequest passes to fetchWithTimeout (line 337). The
\* mutant passes twice as much.
FetchTimeoutMsDoubled == 2 * PUBCHEM_API_TIMEOUT_MS

FetchTimeoutMs == PUBCHEM_API_TIMEOUT_MS

\* What fetchWithTimeout meets when the upstream would answer `response` after
\* ms milliseconds and the timeout is timeoutMs.
NetAfter(ms, response, timeoutMs) ==
  IF ms > timeoutMs THEN NetTimeout ELSE response

GatewayCall(c) ==
  \E op \in {"get", "getBlob"} : ExecuteRequestBegin(c, op)

\* `await this.limiter.removeTokens(1)` returns: the call holds its permit.
GatewayAcquired(c) ==
  /\ RemoveTokensReturn(c)
  /\ gpc' = [gpc EXCEPT ![c] = "acquired"]
  /\ gpermits' = [gpermits EXCEPT ![c] = @ + 1]
  /\ UNCHANGED <<gop, gnet, gresult, gfetches, glatency>>

\* executeRequest goes on to fetchWithTimeout: the request is sent.
GatewayFetch(c) ==
  /\ gpc[c] = "acquired"
  /\ gpc' = [gpc EXCEPT ![c] = "fetching"]
  /\ gfetches' = [gfetches EXCEPT ![c] = @ + 1]
  /\ UNCHANGED <<lqueue, lwindow, acquired, gop, gnet, gresult, gpermits, glatency>>

\* The mutant sends the request again when the operation failed.
GatewaySettleRetrying(c) ==
  /\ gpc[c] = "fetching"
  /\ \E ms \in LatenciesMs, response \in GatewayResponses :
       LET net == NetAfter(ms, response, FetchTimeoutMs)
           res == IF gop[c] = "get" THEN get(net) ELSE getBlob(net)
       IN  /\ gnet' = [gnet EXCEPT ![c] = net]
           /\ glatency' = [glatency EXCEPT ![c] = ms]
           /\ gresult' = [gresult EXCEPT ![c] = res]
           /\ gpc' = [gpc EXCEPT ![c] =
                        IF ~res.ok /\ gfetches[c] < 2 THEN "acquired" ELSE "done"]
  /\ UNCHANGED <<lqueue, lwindow, acquired, gop, gpermits, gfetches>>

\* The fetch settles and the operation runs to its end.
GatewaySettle(c) ==
  /\ gpc[c] = "fetching"
  /\ \E ms \in LatenciesMs, response \in GatewayResponses :
       LET net == NetAfter(ms, response, FetchTimeoutMs)
       IN  /\ gnet' = [gnet EXCEPT ![c] = net]
           /\ glatency' = [glatency EXCEPT ![c] = ms]
           /\ gresult' = [gresult EXCEPT ![c] =
                            IF gop[c] = "get" THEN get(net) ELSE getBlob(net)]
  /\ gpc' = [gpc EXCEPT ![c] = "done"]
  /\ UNCHANGED <<lqueue, lwindow, acquired, gop, gpermits, gfetches>>

\* The caller takes the outcome and may call again.
GatewayReturn(c) ==
  /\ gpc[c] = "done"
  /\ gpc' = [gpc EXCEPT ![c] = "idle"]
  /\ gop' = [gop EXCEPT ![c] = "none"]
  /\ gnet' = [gnet EXCEPT ![c] = NetTimeout]
  /\ gresult' = [gresult EXCEPT ![c] = NoOutcome]
  /\ gpermits' = [gpermits EXCEPT ![c] = 0]
  /\ gfetches' = [gfetches EXCEPT ![c] = 0]
  /\ glatency' = [glatency EXCEPT ![c] = 0]
  /\ UNCHANGED <<lqueue, lwindow, acquired>>

GatewayNext ==
  \/ \E c \in GatewayCallers : GatewayCall(c) /\ UNCHANGED <<xvars, fvars, tvars, ovars, bvars>>
  \/ \E c \in GatewayCallers : GatewayAcquired(c) /\ UNCHANGED <<xvars, fvars, tvars, ovars, bvars>>
  \/ \E c \in GatewayCallers : GatewayFetch(c) /\ UNCHANGED <<xvars, fvars, tvars, ovars, bvars>>
  \/ \E c \in GatewayCallers : GatewaySettle(c) /\ UNCHANGED <<xvars, fvars, tvars, ovars, bvars>>
  \/ \E c \in GatewayCallers : GatewayReturn(c) /\ UNCHANGED <<xvars, fvars, tvars, ovars, bvars>>
  \/ Tick /\ UNCHANGED <<xvars, fvars, tvars, ovars, bvars>>

SpecGateway == Init /\ [][GatewayNext]_vars

\* The table of the claim.
ErrorKindOfStatus(s) ==
  IF s = 400 THEN "INVALID_INPUT"
  ELSE IF s = 404 THEN "NOT_FOUND"
  ELSE IF s = 405 THEN "METHOD_NOT_ALLOWED"
  ELSE IF s = 503 THEN "SERVICE_UNAVAILABLE"
  ELSE IF s = 504 THEN "GATEWAY_TIMEOUT"
  ELSE "EXTERNAL_SERVICE_ERROR"

\* A caller's operation ended on a response of non-2xx status, received with
\* its body.
GotErrorStatus(c) ==
  /\ gpc[c] = "done"
  /\ ~gnet[c].timedOut /\ gnet[c].readable
  /\ ~(gnet[c].status >= 200 /\ gnet[c].status < 300)

C12_Original_ClosedTaxonomy ==
  \A c \in GatewayCallers :
    (gpc[c] = "done" /\ ~gresult[c].ok) => gresult[c].error \in McpErrorCodes

\* get on a 200 response whose body is no JSON ends with the SyntaxError of
\* response.json(), and getBlob on a 500 response whose body cannot be read
\* with the TypeError of response.text().
C12_ForeignErrorEscapes ==
  /\ gpc[1] = "done" /\ gop[1] = "get"
  /\ gnet[1] = NetResponse(200, TRUE, FALSE, [kind |-> "noList", infos |-> << >>])
  /\ gresult[1].error = "SyntaxError"
  /\ gpc[2] = "done" /\ gop[2] = "getBlob"
  /\ gnet[2] = NetResponse(500, FALSE, FALSE, NullBody)
  /\ gresult[2].error = "TypeError"

\* C13: a call of get or getBlob whose upstream takes longer than the fixed
\* timeout of 30 s fails with GATEWAY_TIMEOUT.
C13_TimeoutIsGatewayTimeout ==
  \A c \in GatewayCallers :
    (gpc[c] = "done" /\ glatency[c] > 30000)
      => ~gresult[c].ok /\ gresult[c].error = "GATEWAY_TIMEOUT"

C13_Witness ==
  /\ gpc[1] = "done" /\ gop[1] = "get" /\ glatency[1] = 30001
  /\ gresult[1].error = "GATEWAY_TIMEOUT"
  /\ gpc[2] = "done" /\ gop[2] = "getBlob" /\ glatency[2] = 100
  /\ gresult[2].ok

\* C14: get on a response of status 204 returns null without raising, whether
\* or not the body could be read or parsed.
C14_NoContentReturnsNull ==
  \A c \in GatewayCallers :
    (gpc[c] = "done" /\ gop[c] = "get" /\ ~gnet[c].timedOut /\ gnet[c].status = 204)
      => gresult[c].ok /\ gresult[c].value = NullBody

C14_Witness ==
  /\ gpc[1] = "done" /\ gop[1] = "get"
  /\ gnet[1] = NetResponse(204, FALSE, FALSE, NullBody)
  /\ gresult[1].ok /\ gresult[1].value = NullBody

\* C15: a call sends its network request only after its own acquisition of a
\* permit has returned, and every request sent is paired with exactly one
\* permit acquired by the same call: a call still waiting has sent nothing.
C15_PermitBeforeNetwork ==
  \A c \in GatewayCallers :
    /\ gpc[c] \in {"idle", "waiting"} => gfetches[c] = 0
    /\ gfetches[c] > 0 => gpermits[c] = 1 /\ gfetches[c] = 1
    /\ gpc[c] \in {"fetching", "done"} => gfetches[c] = 1

\* Caller 1 has sent its request on its permit while caller 2, the quota of
\* the second being used up, still waits and has sent nothing.
C15_Witness ==
  /\ gpc[1] = "fetching" /\ gpermits[1] = 1 /\ gfetches[1] = 1
  /\ gpc[2] = "waiting" /\ gfetches[2] = 0
  /\ Len(lwindow[1]) = tokensPerInterval

(***************************************************************************)
(* The gateway requests and the cross-reference aggregation in one         *)
(* specification: the process serves either direct calls of the gateway or *)
(* one aggregation.                                                        *)
(***************************************************************************)
NoRetryNext ==
  \/ GatewayInit /\ XrefsStartShort /\ UNCHANGED <<gvars, fvars, tvars, ovars, bvars>>
  \/ GatewayInit /\ XrefsFetch /\ UNCHANGED <<gvars, fvars, tvars, ovars, bvars>>
  \/ XrefsInit /\ \E c \in GatewayCallers : GatewayCall(c) /\ UNCHANGED <<xvars, fvars, tvars, ovars, bvars>>
  \/ XrefsInit /\ \E c \in GatewayCallers : GatewayAcquired(c) /\ UNCHANGED <<xvars, fvars, tvars, ovars, bvars>>
  \/ XrefsInit /\ \E c \in GatewayCallers : GatewayFetch(c) /\ UNCHANGED <<xvars, fvars, tvars, ovars, bvars>>
  \/ XrefsInit /\ \E c \in GatewayCallers : GatewaySettle(c) /\ UNCHANGED <<xvars, fvars, tvars, ovars, bvars>>
  \/ XrefsInit /\ \E c \in GatewayCallers : GatewayReturn(c) /\ UNCHANGED <<xvars, fvars, tvars, ovars, bvars>>
  \/ XrefsInit /\ Tick /\ UNCHANGED <<xvars, fvars, tvars, ovars, bvars>>

SpecNoRetry == Init /\ [][NoRetryNext]_vars

\* C16: no retries. A call of get or getBlob sends at most one network
\* request, exactly one once it has ended, whatever the outcome; and the
\* aggregation makes one call per requested position, in order, a failed one
\* never being made again.
C16_NoRetries ==
  /\ \A c \in GatewayCallers :
       /\ gfetches[c] <= 1
       /\ gpc[c] = "done" => gfetches[c] = 1
  /\ Len(xcalls) <= Len(xparams.xrefTypes)
  /\ \A k \in 1 .. Len(xcalls) : xcalls[k].type = xparams.xrefTypes[k]
  /\ XDone => Len(xcalls) = Len(xparams.xrefTypes)

\* An aggregation over two categories whose first call failed: two calls were
\* made in all, and the second category's group is returned.
C16_Witness ==
  /\ XDone /\ Len(xparams.xrefTypes) = 2
  /\ xparams.xrefTypes[1] # xparams.xrefTypes[2]
  /\ Len(xcalls) = 2 /\ xcalls[1].failed /\ xcalls[2].hasValue
  /\ xresult.ok

(***************************************************************************)
(* The aggregation with its calls going through the gateway: every get of  *)
(* the loop waits for its permit from the shared limiter, sends its        *)
(* request and settles, while other requests of the process take permits   *)
(* from the same limiter.                                                  *)
(***************************************************************************)
\* The gateway call of the aggregation and a request of some other tool.
AggCaller == 1
OtherCaller == 2

\* The logic is called (page and pageSize play no part here): it runs to the
\* await of removeTokens inside the get of the first entry.
AggStart ==
  /\ XrefsStartShort
  /\ xparams'.page = 1 /\ xparams'.pageSize = 1
  /\ ExecuteRequestBegin(AggCaller, "get")

\* The permit of the call awaited is granted.
AggAcquired ==
  /\ xpc = "loop"
  /\ GatewayAcquired(AggCaller)
  /\ UNCHANGED xvars

\* The request of the call awaited is sent.
AggFetch ==
  /\ xpc = "loop"
  /\ GatewayFetch(AggCaller)
  /\ UNCHANGED xvars

\* The request settles: the iteration of the loop ends (XrefsFetch) and, if
\* entries are left, the get of the next entry is called and runs to its
\* removeTokens; after the last entry the logic returns or throws.
AggSettle ==
  /\ gpc[AggCaller] = "fetching"
  /\ XrefsFetch
  /\ IF xpc' = "loop"
     THEN /\ gpc' = [gpc EXCEPT ![AggCaller] = "waiting"]
          /\ lqueue' = [lqueue EXCEPT ![getInstance(AggCaller)] = Append(@, AggCaller)]
     ELSE /\ gpc' = [gpc EXCEPT ![AggCaller] = "done"]
          /\ lqueue' = lqueue
  /\ UNCHANGED <<lwindow, acquired, gop, gnet, gresult, gpermits, gfetches, glatency>>

\* Another tool asks the limiter for a permit, and gets it.
OtherRequest ==
  /\ ExecuteRequestBegin(OtherCaller, "get")
  /\ UNCHANGED xvars

OtherGrant ==
  /\ RemoveTokensReturn(OtherCaller)
  /\ gpc' = [gpc EXCEPT ![OtherCaller] = "idle"]
  /\ gop' = [gop EXCEPT ![OtherCaller] = "none"]
  /\ UNCHANGED <<gnet, gresult, gpermits, gfetches, glatency>>
  /\ UNCHANGED xvars

AggNext ==
  \/ AggStart /\ UNCHANGED <<fvars, tvars, ovars, bvars>>
  \/ AggAcquired /\ UNCHANGED <<fvars, tvars, ovars, bvars>>
  \/ AggFetch /\ UNCHANGED <<fvars, tvars, ovars, bvars>>
  \/ AggSettle /\ UNCHANGED <<fvars, tvars, ovars, bvars>>
  \/ OtherRequest /\ UNCHANGED <<fvars, tvars, ovars, bvars>>
  \/ OtherGrant /\ UNCHANGED <<fvars, tvars, ovars, bvars>>
  \/ Tick /\ UNCHANGED <<xvars, fvars, tvars, ovars, bvars>>

SpecAggregation == Init /\ [][AggNext]_vars

\* The calls of get the aggregation has made so far: those that settled and
\* the one that waits for its permit or is in flight.
AggCallPending == gpc[AggCaller] \in {"waiting", "acquired", "fetching"}

AggCallsStarted == Len(xcalls) + (IF AggCallPending THEN 1 ELSE 0)

C24_OneCallPerCategory ==
  /\ Len(xcalls) <= Len(xparams.xrefTypes)
  /\ \A k \in 1 .. Len(xcalls) :
       xcalls[k].type \in XrefTypes /\ xcalls[k].type = xparams.xrefTypes[k]
  /\ gfetches[AggCaller] <= gpermits[AggCaller]
  /\ gpermits[AggCaller] = AggCallsStarted - (IF gpc[AggCaller] = "waiting" THEN 1 ELSE 0)
  /\ XDone =>
       /\ Len(xcalls) = Len(xparams.xrefTypes)
       /\ gpermits[AggCaller] = Len(xparams.xrefTypes)
       /\ gfetches[AggCaller] = Len(xparams.xrefTypes)

\* Two categories were requested; the call of the first failed and the call of
\* the second gave a value: two calls, two permits, two requests.
C24_Witness ==
  /\ XDone /\ xresult.ok
  /\ Len(xparams.xrefTypes) = 2 /\ xparams.xrefTypes[1] # xparams.xrefTypes[2]
  /\ xcalls[1].failed /\ xcalls[2].hasValue
  /\ gpermits[AggCaller] = 2 /\ gfetches[AggCaller] = 2

(***************************************************************************)
(* The aggregation called twice, as a process.                             *)
(***************************************************************************)
TwiceNext ==
  \/ TwiceStart /\ UNCHANGED <<gvars, fvars, ovars, bvars>>
  \/ TwiceFetch /\ UNCHANGED <<gvars, fvars, ovars, bvars>>
  \/ TwiceCallAgain /\ UNCHANGED <<gvars, fvars, ovars, bvars>>

SpecXrefsTwice == Init /\ [][TwiceNext]_vars

PairNext ==
  \/ TwiceStart /\ UNCHANGED <<gvars, fvars, ovars, bvars>>
  \/ PairFetch /\ UNCHANGED <<gvars, fvars, ovars, bvars>>
  \/ TwiceCallAgain /\ UNCHANGED <<gvars, fvars, ovars, bvars>>

SpecXrefsPair == Init /\ [][PairNext]_vars

\* The positions at which one of the two calls met a failed get and the other
\* a body without a value.
PairSwapped ==
  {k \in 1 .. Len(xcalls) : xcalls[k].failed # xprevCalls[k].failed}

\* C28: a failed category is indistinguishable from an empty one. Two calls
\* with the same params that differ only in that the get of some categories
\* failed (with whatever error) in one and returned no value in the other end
\* alike: both fail with NOT_FOUND, or both return the same page, the same
\* groups and the same pagination.
C28_FailedLikeEmpty ==
  (xrun = 2 /\ XDone /\ PairSwapped # {}) =>
    /\ xresult.ok = xprev.ok
    /\ xresult.error = xprev.error
    /\ ~xresult.ok => xresult.error = "NOT_FOUND"
    /\ xresult.xrefGroups = xprev.xrefGroups
    /\ xresult.xrefs = xprev.xrefs
    /\ xresult.pagination = xprev.pagination

\* The get of the first of two categories failed in the first call and
\* returned a body without a value in the second; the second category gave its
\* value both times, and both calls returned that one group.
C28_Witness ==
  /\ xrun = 2 /\ XDone /\ xresult.ok /\ xprev.ok
  /\ Len(xcalls) = 2 /\ xcalls[1].type # xcalls[2].type
  /\ xprevCalls[1].failed /\ ~xcalls[1].failed /\ ~xcalls[1].hasValue
  /\ xcalls[2].hasValue /\ xprevCalls[2].hasValue
  /\ Len(xresult.xrefGroups) = 1 /\ xresult.xrefGroups = xprev.xrefGroups

(***************************************************************************)
(* The single operations as a process.                                     *)
(***************************************************************************)
OpsNext ==
  \/ \E op \in OpNames : OpStart(op) /\ UNCHANGED <<xvars, gvars, fvars, tvars, bvars>>
  \/ \E k \in 1 .. 2 : OpSettle(k) /\ UNCHANGED <<xvars, gvars, fvars, tvars, bvars>>

SpecOperations == Init /\ [][OpsNext]_vars

ODone == opc = "done"

\* The operation ended because a request of its own failed with an error of
\* the gateway's taxonomy, e.
EndedOnUpstreamError(e) ==
  /\ ODone
  /\ e \in McpErrorCodes
  /\ \E k \in 1 .. Len(ocalls) : ocalls[k].failed /\ ocalls[k].error = e

\* C18 as stated: every operation that receives an error of the taxonomy from
\* the gateway fails with an error of the same kind.
C18_Original_PassedUnchanged ==
  \A e \in McpErrorCodes :
    EndedOnUpstreamError(e) => ~oresult.ok /\ oresult.error = e

\* C18, amended: the operations that make their requests outside any try (the
\* structure, similarity and formula searches, the assay search by target, the
\* assay summary and the substance details) fail with the gateway's error
\* kind unchanged, while the compound image operation fails with
\* EXTERNAL_SERVICE_ERROR whatever kind the gateway gave.
C18_PassedUnchangedButImage ==
  \A e \in McpErrorCodes :
    EndedOnUpstreamError(e) =>
      /\ ~oresult.ok
      /\ oop # "image" => oresult.error = e
      /\ oop = "image" => oresult.error = "EXTERNAL_SERVICE_ERROR"

\* The substance details: the request of the CIDs failed with NOT_FOUND after
\* the details had arrived, and the operation failed with NOT_FOUND.
C18_Witness ==
  /\ ODone /\ oop = "substanceDetails"
  /\ ocalls[1].settled /\ ~ocalls[1].failed
  /\ ocalls[2].failed /\ ocalls[2].error = "NOT_FOUND"
  /\ oresult.error = "NOT_FOUND"

\* A numeric string, read generously: after leading white space and a sign,
\* decimal digits, possibly followed by a point and more digits, and nothing
\* else.
IsNumericString(str) ==
  LET t == TrimStart(str)
      u == IF t # << >> /\ Head(t) \in {"+", "-"} THEN Tail(t) ELSE t
  IN  \E n \in 1 .. Len(u) :
        /\ \A k \in 1 .. n : u[k] \in Digits
        /\ \/ n = Len(u)
           \/ /\ n + 1 < Len(u)
              /\ u[n + 1] = "."
              /\ \A k \in n + 2 .. Len(u) : u[k] \in Digits

\* C19 as stated: a structure or similarity search whose queryType is "cid"
\* and whose query is no numeric string fails with INVALID_INPUT without
\* having called the gateway.
C19_Original_RejectedBeforeAnyCall ==
  (/\ oop \in ValidatingOps /\ opc # "idle"
   /\ oparams.queryType = "cid" /\ ~IsNumericString(oparams.query))
    => /\ ocalls = << >>
       /\ ODone /\ oresult.error = "INVALID_INPUT"

\* The structure search with queryType "cid" and query "12a" has called the
\* gateway.
C19_PrefixAccepted ==
  /\ oop = "structure" /\ opc = "pending"
  /\ oparams = [queryType |-> "cid", query |-> <<"1", "2", "a">>]
  /\ Len(ocalls) = 1

(***************************************************************************)
(* The batch operations as a process.                                      *)
(***************************************************************************)
FanoutNext ==
  \/ \E op \in {"properties", "identifiers", "summary"} :
       FanoutStart(op) /\ UNCHANGED <<xvars, gvars, tvars, ovars, bvars>>
  \/ \E k \in 1 .. MaxBatch : PropertiesSettle(k) /\ UNCHANGED <<xvars, gvars, tvars, ovars, bvars>>
  \/ \E k \in 1 .. MaxBatch : IdentifierSettle(k) /\ UNCHANGED <<xvars, gvars, tvars, ovars, bvars>>
  \/ \E k \in 1 .. MaxBatch : SummarySettle(k) /\ UNCHANGED <<xvars, gvars, tvars, ovars, bvars>>

SpecFanout == Init /\ [][FanoutNext]_vars

FDone(op) == fop = op /\ fpc = "done"

\* The keys of the results object, in its order.
KeysOf(obj) == [k \in 1 .. Len(obj) |-> obj[k].key]

BatchOps == {"properties", "identifiers", "summary"}

\* Position k's call failed while the call of another position returned a
\* non-empty result.
FailedBesideValue(k) ==
  /\ fcalls[k].failed
  /\ \E j \in 1 .. Len(finputs) : j # k /\ fsettled[j] /\ fcalls[j].value # << >>

\* C11 as stated: a batch operation never fails because one item's gateway
\* call failed: whenever an item's call failed and another item's call gave a
\* non-empty result, the operation succeeds and returns the other items'
\* results.
C11_Original_NeverRaises ==
  \A op \in BatchOps :
    (FDone(op) /\ \E k \in 1 .. Len(finputs) : FailedBesideValue(k))
      => fresult.ok

\* The summary fetch with identifiers [1, 2]: the call of 1 returned its
\* summary, the call of 2 then failed with NOT_FOUND, and the whole operation
\* failed with that error.
C11_SummaryAborted ==
  /\ FDone("summary")
  /\ finputs = <<1, 2>>
  /\ forder = <<1, 2>>
  /\ fcalls[1].value = <<[AID |-> 1]>>
  /\ fcalls[2].failed /\ fcalls[2].thrown = "NOT_FOUND"
  /\ ~fresult.ok /\ fresult.error = "NOT_FOUND"

\* What the identifier search returns when its calls complete in the order of
\* the inputs, each call with the outcome it had: position 1 .. n stored one
\* after the other.
RECURSIVE ObjectInInputOrder(_)
ObjectInInputOrder(n) ==
  IF n = 0 THEN << >>
  ELSE ObjectSet(ObjectInInputOrder(n - 1), IdentifierName(finputs[n]),
                 fcalls[n].value)

\* C25 as stated: the result of a fan-out is the same for every order of
\* completion of its calls: whatever the order, the property fetch returns
\* what the lists of its calls give in input order, and the identifier search
\* the very map (the same keys with the same values, serialized alike) that
\* completion in input order gives, also when an input is repeated.
C25_Original_OrderIndependent ==
  /\ FDone("properties") =>
       fresult = PropertiesReturn([k \in 1 .. Len(finputs) |-> fcalls[k].value],
                                  [k \in 1 .. Len(finputs) |-> k])
  /\ FDone("identifiers") =>
       fresult.results = ObjectInInputOrder(Len(finputs))

\* The identifier search over ["aspirin", "aspirin"]: the call of the first
\* position failed and the call of the second returned a CID. Completed in the
\* order 2, 1 the search maps aspirin to the empty list, while completion in
\* input order maps it to the CID.
C25_LastCompletionWins ==
  /\ FDone("identifiers")
  /\ finputs = <<1, 1>> /\ forder = <<2, 1>>
  /\ fcalls[1].failed /\ fcalls[2].value = <<101>>
  /\ fresult.results = <<[key |-> "aspirin", val |-> << >>]>>
  /\ ObjectInInputOrder(2) = <<[key |-> "aspirin", val |-> <<101>>]>>

\* The value the results map holds for a key.
ValueOf(obj, key) ==
  (CHOOSE e \in {obj[j] : j \in 1 .. Len(obj)} : e.key = key).val

\* C30 as stated: the identifier search always returns; the keys of its map
\* are the input identifiers; an identifier whose call failed or returned no
\* CID list is mapped to the empty list and an identifier whose call returned
\* CIDs is mapped to these.
C30_Original_EveryInputAccounted ==
  FDone("identifiers") =>
    /\ fresult.ok
    /\ {fresult.results[j].key : j \in 1 .. Len(fresult.results)}
         = {IdentifierName(finputs[k]) : k \in 1 .. Len(finputs)}
    /\ \A k \in 1 .. Len(finputs) :
         ValueOf(fresult.results, IdentifierName(finputs[k])) = fcalls[k].value

\* The identifier search over ["aspirin", "aspirin"], completed in input
\* order: the call of the first position failed, and aspirin is mapped to the
\* CID the call of the second position returned.
C30_FailedButMapped ==
  /\ FDone("identifiers")
  /\ finputs = <<1, 1>> /\ forder = <<1, 2>>
  /\ fcalls[1].failed /\ fcalls[2].value = <<101>>
  /\ fresult.results = <<[key |-> "aspirin", val |-> <<101>>]>>

====
